---- MODULE Spec2Model ----
(***************************************************************************)
(* Model of the offline ammonia engine (src/ammonia-app/src/               *)
(* ammonia_engine.js): standardScale, forestPredict, emersonPhysics,       *)
(* classifyRisk, predictAmmoniaRisk and generateHeatmapData.               *)
(*                                                                         *)
(* JavaScript numbers are IEEE-754 doubles.  They are modelled as decimal  *)
(* floating-point numbers with a six-digit significand: a record           *)
(*   [k |-> "fin", m |-> significand, e |-> exponent]   value m * 10^e     *)
(*   [k |-> "inf", m |-> 1 or -1, e |-> 0]              +Infinity/-Infinity*)
(*   [k |-> "nan", m |-> 0, e |-> 0]                    NaN                *)
(* A finite number is 0 (m = 0, e = 0) or normalised (10^5 <= |m| < 10^6). *)
(* Every operation rounds its result to six digits, overflows to an        *)
(* infinity above the largest finite number and follows the IEEE rules for *)
(* the special values (Infinity - Infinity = NaN, 0 * Infinity = NaN,      *)
(* x / 0 = Infinity, comparisons with NaN are false).  Every decimal       *)
(* literal of the source has at most six significant digits, so the        *)
(* program's constants are exact in the model.  Signed zeros and           *)
(* subnormal numbers are not modelled (a result below the smallest normal  *)
(* number is 0).                                                           *)
(***************************************************************************)
EXTENDS Integers, Sequences, FiniteSets, TLC

VARIABLES SCALER_MEANS, SCALER_STDS, MODEL, call, log, home

vars == <<SCALER_MEANS, SCALER_STDS, MODEL, call, log, home>>

\* ------------------------------------------------------------------------
\* Floating-point arithmetic
\* ------------------------------------------------------------------------

\* JavaScript evaluates an argument once, before the call, and a const local
\* once, where it is declared: Let(v, LAMBDA x : body) is "const x = v; body"
Let(v, F(_)) == CHOOSE r \in {F(x) : x \in {v}} : TRUE

\* significands of normalised numbers lie in MLo .. MHi - 1 (six digits)
MLo == 10 ^ 5
MHi == 10 ^ 6
\* exponent range: the largest finite number is 179769e303 (Number.MAX_VALUE,
\* 1.79769e308), the smallest normal one 100000e-313 (1e-308)
Emax == 309 - 6
Emin == 0 - 308 - 5

\* whether the normalised m * 10^e is beyond the largest finite number
Overflows(m, e) == e > Emax \/ (e = Emax /\ m > 179769)

Zero == [k |-> "fin", m |-> 0, e |-> 0]
NaN == [k |-> "nan", m |-> 0, e |-> 0]
Inf(s) == [k |-> "inf", m |-> s, e |-> 0]

Abs(n) == IF n < 0 THEN 0 - n ELSE n
Sgn(n) == IF n < 0 THEN 0 - 1 ELSE IF n > 0 THEN 1 ELSE 0

RECURSIVE NDigits(_)
NDigits(M) == IF M < 10 THEN 1 ELSE 1 + NDigits(M \div 10)

\* the number s * M * 10^e (s = 1 or -1, M >= 0) rounded to six digits
\* (round half away from zero), with overflow and underflow
Norm(s, M0, e) ==
    Let(M0, LAMBDA M :
    IF M = 0 THEN Zero
    ELSE Let(NDigits(M), LAMBDA n :
         Let(IF n > 6 THEN (M + 5 * 10 ^ (n - 7)) \div 10 ^ (n - 6)
                      ELSE M * 10 ^ (6 - n), LAMBDA R :
         Let(IF R = MHi THEN e + (n - 6) + 1 ELSE e + (n - 6), LAMBDA e2 :
         Let(IF R = MHi THEN MLo ELSE R, LAMBDA m2 :
             IF Overflows(m2, e2) THEN Inf(s)
             ELSE IF e2 < Emin THEN Zero
             ELSE [k |-> "fin", m |-> s * m2, e |-> e2])))))

\* a decimal literal of the source: Lit(27315, -2) is 273.15
Lit(m, e) == Norm(IF m < 0 THEN 0 - 1 ELSE 1, Abs(m), e)

\* an integer (a loop index, a step count) as a number
FromInt(n) == Lit(n, 0)

IsNaN(a) == a.k = "nan"
IsFinite(a) == a.k = "fin"

\* -a
FNeg(x) == Let(x, LAMBDA a : [a EXCEPT !.m = 0 - a.m])

\* the sum of two finite numbers other than 0: the one with the smaller
\* exponent is aligned to the other, with three guard digits
AddAligned(hi, lo) ==
    Let(hi.e - lo.e, LAMBDA d :
    IF d > 8 THEN hi
    ELSE Let(hi.m * 1000
             + (IF d <= 3 THEN lo.m * 10 ^ (3 - d)
                ELSE Sgn(lo.m) * (Abs(lo.m) \div 10 ^ (d - 3))), LAMBDA S :
             Norm(IF S < 0 THEN 0 - 1 ELSE 1, Abs(S), hi.e - 3)))

\* x + y
FAdd(x, y) ==
    Let(x, LAMBDA a : Let(y, LAMBDA b :
    IF a.k = "nan" \/ b.k = "nan" THEN NaN
    ELSE IF a.k = "inf" /\ b.k = "inf" THEN (IF a.m = b.m THEN a ELSE NaN)
    ELSE IF a.k = "inf" THEN a
    ELSE IF b.k = "inf" THEN b
    ELSE IF a.m = 0 THEN b
    ELSE IF b.m = 0 THEN a
    ELSE IF a.e >= b.e THEN AddAligned(a, b) ELSE AddAligned(b, a)))

\* x - y
FSub(x, y) == FAdd(x, FNeg(y))

\* the product of two significands without its last three digits
MulDigits(p, q) == p * (q \div 1000) + (p * (q % 1000)) \div 1000

\* x * y
FMul(x, y) ==
    Let(x, LAMBDA a : Let(y, LAMBDA b :
    IF a.k = "nan" \/ b.k = "nan" THEN NaN
    ELSE IF a.m = 0 \/ b.m = 0
         THEN (IF a.k = "inf" \/ b.k = "inf" THEN NaN ELSE Zero)
    ELSE IF a.k = "inf" \/ b.k = "inf" THEN Inf(Sgn(a.m) * Sgn(b.m))
    ELSE Norm(Sgn(a.m) * Sgn(b.m), MulDigits(Abs(a.m), Abs(b.m)), a.e + b.e + 3)))

\* long division: n more digits of the quotient q, remainder r, divisor d
RECURSIVE DivDigits(_, _, _, _)
DivDigits(q, r, d, n) ==
    IF n = 0 THEN q
    ELSE DivDigits(q * 10 + (r * 10) \div d, (r * 10) % d, d, n - 1)

\* x / y
FDiv(x, y) ==
    Let(x, LAMBDA a : Let(y, LAMBDA b :
    IF a.k = "nan" \/ b.k = "nan" THEN NaN
    ELSE IF a.k = "inf"
         THEN (IF b.k = "inf" THEN NaN
               ELSE Inf(a.m * (IF b.m < 0 THEN 0 - 1 ELSE 1)))
    ELSE IF b.k = "inf" THEN Zero
    ELSE IF b.m = 0 THEN (IF a.m = 0 THEN NaN ELSE Inf(Sgn(a.m)))
    ELSE IF a.m = 0 THEN Zero
    ELSE Norm(Sgn(a.m) * Sgn(b.m),
              DivDigits(Abs(a.m) \div Abs(b.m), Abs(a.m) % Abs(b.m), Abs(b.m), 7),
              a.e - b.e - 7)))

\* -1, 0, 1 as a < b, a = b, a > b, for numbers that are not NaN
Cmp(a, b) ==
    IF a.k = "inf" \/ b.k = "inf"
    THEN Sgn((IF a.k = "inf" THEN 2 * a.m ELSE Sgn(a.m))
             - (IF b.k = "inf" THEN 2 * b.m ELSE Sgn(b.m)))
    ELSE IF a.m = 0 \/ b.m = 0 \/ Sgn(a.m) # Sgn(b.m) THEN Sgn(Sgn(a.m) - Sgn(b.m))
    ELSE IF a.e # b.e THEN Sgn(a.m) * Sgn(a.e - b.e)
    ELSE Sgn(a.m - b.m)

\* x < y, x <= y, x > y, x >= y: false when either is NaN
FLt(x, y) == Let(x, LAMBDA a : Let(y, LAMBDA b : ~IsNaN(a) /\ ~IsNaN(b) /\ Cmp(a, b) < 0))
FLe(x, y) == Let(x, LAMBDA a : Let(y, LAMBDA b : ~IsNaN(a) /\ ~IsNaN(b) /\ Cmp(a, b) <= 0))
FGt(x, y) == FLt(y, x)
FGe(x, y) == FLe(y, x)

\* Math.max(x, y), Math.min(x, y): NaN when either is NaN
MathMax(x, y) ==
    Let(x, LAMBDA a : Let(y, LAMBDA b :
    IF IsNaN(a) \/ IsNaN(b) THEN NaN ELSE IF Cmp(a, b) >= 0 THEN a ELSE b))
MathMin(x, y) ==
    Let(x, LAMBDA a : Let(y, LAMBDA b :
    IF IsNaN(a) \/ IsNaN(b) THEN NaN ELSE IF Cmp(a, b) <= 0 THEN a ELSE b))

\* ------------------------------------------------------------------------
\* Math.pow(10, y), Math.expm1, Math.tanh
\* ------------------------------------------------------------------------

One == Lit(1, 0)
Two == Lit(2, 0)
\* ln 10 and log10 e, to six digits
LN10 == Lit(230259, -5)
LOG10E == Lit(434294, -6)

\* floor of a finite number of magnitude below 10^9, as an integer
FloorInt(a) ==
    IF a.m = 0 THEN 0
    ELSE IF a.e >= 0 THEN a.m * 10 ^ a.e
    ELSE IF 0 - a.e > 9 THEN (IF a.m < 0 THEN 0 - 1 ELSE 0)
    ELSE IF a.m > 0 THEN a.m \div 10 ^ (0 - a.e)
    ELSE IF Abs(a.m) % 10 ^ (0 - a.e) = 0 THEN 0 - (Abs(a.m) \div 10 ^ (0 - a.e))
    ELSE 0 - (Abs(a.m) \div 10 ^ (0 - a.e)) - 1

\* 1 + x/k * (1 + x/(k+1) * ( ... (1 + x/N))), the Taylor series of e^x from
\* term k, summed from the innermost term n = N outwards (acc holds the part
\* already summed)
RECURSIVE SeriesLoop(_, _, _, _)
SeriesLoop(x, k, n, acc0) ==
    Let(acc0, LAMBDA acc :
    IF n < k THEN acc
    ELSE SeriesLoop(x, k, n - 1, FAdd(One, FMul(FDiv(x, FromInt(n)), acc))))

Series(x0, k, N) == Let(x0, LAMBDA x : SeriesLoop(x, k, N, One))

\* 10^y for a finite y: 10^floor(y) * e^((y - floor(y)) * ln 10)
Pow10Finite(y, n) ==
    Let(Series(FMul(FSub(y, FromInt(n)), LN10), 1, 16), LAMBDA r :
        Norm(1, r.m, r.e + n))

\* Math.pow(10, x)
MathPow10(x) ==
    Let(x, LAMBDA y :
    IF y.k = "nan" THEN NaN
    ELSE IF y.k = "inf" THEN (IF y.m > 0 THEN y ELSE Zero)
    ELSE IF FGt(y, Lit(400, 0)) THEN Inf(1)
    ELSE IF FLt(y, Lit(0 - 400, 0)) THEN Zero
    ELSE Let(FloorInt(y), LAMBDA n : Pow10Finite(y, n)))

\* Math.exp(x)
MathExp(x) == MathPow10(FMul(x, LOG10E))

\* Math.expm1(x) = e^x - 1, computed without cancellation near 0
MathExpm1(x0) ==
    Let(x0, LAMBDA x :
    IF x.k = "nan" THEN NaN
    ELSE IF x.k = "inf" THEN (IF x.m > 0 THEN x ELSE FNeg(One))
    ELSE IF FLt(x, Lit(5, -1)) /\ FGt(x, Lit(0 - 5, -1))
         THEN FMul(x, Series(x, 2, 11))
    ELSE FSub(MathExp(x), One))

\* Math.tanh(x) = expm1(2x) / (expm1(2x) + 2); 1 or -1 beyond |x| = 10
MathTanh(x0) ==
    Let(x0, LAMBDA x :
    IF x.k = "nan" THEN NaN
    ELSE IF x.k = "inf" \/ FGt(x, Lit(10, 0)) \/ FLt(x, Lit(0 - 10, 0))
         THEN Lit(Sgn(x.m), 0)
    ELSE Let(MathExpm1(FMul(Two, x)), LAMBDA t : FDiv(t, FAdd(t, Two))))

\* ------------------------------------------------------------------------
\* The engine
\* ------------------------------------------------------------------------

\* const SCALER_MEANS, SCALER_STDS: features [Temp, EC, pH, pH_Temp, EC_pH]
InitMeans == <<Lit(265, -1), Lit(1180, 0), Lit(72, -1), Lit(19128, -2), Lit(8496, 0)>>
InitStds == <<Lit(38, -1), Lit(350, 0), Lit(45, -2), Lit(305, -1), Lit(2800, 0)>>

\* const MODEL
\* the parameters with the intercept's sign lost: +0.12
InitModelPositive ==
    [intercept |-> Lit(12, -2),
     weights |-> [Temp |-> Lit(8, -2), EC |-> Lit(22, -2), pH |-> Lit(0 - 5, -2),
                  pH_Temp |-> Lit(12, -2), EC_pH |-> Lit(11, -2)],
     saturation |-> Lit(28, -1)]

InitModel ==
    [intercept |-> Lit(0 - 12, -2),
     weights |-> [Temp |-> Lit(8, -2), EC |-> Lit(22, -2), pH |-> Lit(0 - 5, -2),
                  pH_Temp |-> Lit(12, -2), EC_pH |-> Lit(11, -2)],
     saturation |-> Lit(28, -1)]

\* features.map((v, i) => (v - SCALER_MEANS[i]) / SCALER_STDS[i])
standardScale(features) ==
    Let(features, LAMBDA f :
        [i \in 1..Len(f) |-> FDiv(FSub(f[i], SCALER_MEANS[i]), SCALER_STDS[i])])

\* the linear combination (MODEL.intercept + MODEL.weights.Temp * Temp_s + ...)
\* and the three second-order terms, added left to right
forestSum(scaledFeatures) ==
    Let(scaledFeatures, LAMBDA s :
        FAdd(FAdd(FAdd(FAdd(FAdd(FAdd(FAdd(FAdd(MODEL.intercept,
            FMul(MODEL.weights.Temp, s[1])),
            FMul(MODEL.weights.EC, s[2])),
            FMul(MODEL.weights.pH, s[3])),
            FMul(MODEL.weights.pH_Temp, s[4])),
            FMul(MODEL.weights.EC_pH, s[5])),
            FMul(FMul(Lit(4, -2), s[1]), s[2])),
            FMul(FMul(Lit(3, -2), s[2]), s[3])),
            FMul(FMul(Lit(2, -2), s[1]), s[4])))

\* pred = MODEL.saturation * Math.tanh(pred / MODEL.saturation)
saturate(pred) == FMul(MODEL.saturation, MathTanh(FDiv(pred, MODEL.saturation)))

\* pred = Math.max(-0.05, Math.min(pred, 3.2))
clampLog(pred) == MathMax(Lit(0 - 5, -2), MathMin(pred, Lit(32, -1)))

forestPredict(scaledFeatures) == clampLog(saturate(forestSum(scaledFeatures)))

\* pKa = 0.09018 + (2729.92 / temp_k), temp_k = temp_c + 273.15
\* pKa computed from the Celsius temperature, the conversion to kelvin left out
pKaOfCelsius(temp_c) ==
    FAdd(Lit(9018, -5), FDiv(Lit(272992, -2), temp_c))

pKaOf(temp_c) ==
    FAdd(Lit(9018, -5), FDiv(Lit(272992, -2), FAdd(temp_c, Lit(27315, -2))))

\* the fraction with the exponent's sign reversed: Math.pow(10, pH - pKa)
nh3FractionReversed(temp_c, pH) ==
    FDiv(One, FAdd(One, MathPow10(FSub(pH, pKaOf(temp_c)))))

\* nh3_fraction = 1.0 / (1.0 + Math.pow(10, pKa - pH))
nh3Fraction(temp_c, pH) ==
    FDiv(One, FAdd(One, MathPow10(FSub(pKaOf(temp_c), pH))))

emersonPhysics(tan_mg_L, temp_c, pH) == FMul(tan_mg_L, nh3Fraction(temp_c, pH))

\* classifyRisk with the thresholds compared by <= (0.05 SAFE, 0.34 WARNING)
classifyRiskInclusive(x) ==
    Let(x, LAMBDA toxicNH3 :
    IF FLe(toxicNH3, Lit(5, -2)) THEN "SAFE"
    ELSE IF FLe(toxicNH3, Lit(34, -2)) THEN "WARNING"
    ELSE "CRITICAL")

classifyRisk(x) ==
    Let(x, LAMBDA toxicNH3 :
    IF FLt(toxicNH3, Lit(5, -2)) THEN "SAFE"
    ELSE IF FLt(toxicNH3, Lit(34, -2)) THEN "WARNING"
    ELSE "CRITICAL")

\* const raw = [temp_c, ec, pH, pH_Temp, EC_pH]
featureEng(temp_c, pH, ec) == <<temp_c, ec, pH, FMul(pH, temp_c), FMul(ec, pH)>>

\* the locals of predictAmmoniaRisk, steps 1 to 6
pipeline(temp_c, pH, ec) ==
    Let(forestPredict(standardScale(featureEng(temp_c, pH, ec))), LAMBDA pred_log :
    Let(MathExpm1(pred_log), LAMBDA pred_TAN :
    Let(emersonPhysics(pred_TAN, temp_c, pH), LAMBDA toxic_NH3 :
        [pred_log |-> pred_log, pred_TAN |-> pred_TAN, toxic_NH3 |-> toxic_NH3,
         risk |-> classifyRisk(toxic_NH3)])))

\* a result whose label classifies the TAN rather than the toxic NH3
resultOfTanRisk(locals) ==
    Let(locals, LAMBDA loc :
        [TAN |-> MathMax(Zero, loc.pred_TAN),
         toxicNH3 |-> MathMax(Zero, loc.toxic_NH3),
         risk |-> classifyRisk(loc.pred_TAN)])

\* a result that labels a NaN toxic NH3 "UNKNOWN"
resultOfUnknown(locals) ==
    Let(locals, LAMBDA loc :
        [TAN |-> MathMax(Zero, loc.pred_TAN),
         toxicNH3 |-> MathMax(Zero, loc.toxic_NH3),
         risk |-> IF IsNaN(loc.toxic_NH3) THEN "UNKNOWN" ELSE loc.risk])

\* the object predictAmmoniaRisk returns from its locals
resultOf(locals) ==
    Let(locals, LAMBDA loc :
        [TAN |-> MathMax(Zero, loc.pred_TAN),
         toxicNH3 |-> MathMax(Zero, loc.toxic_NH3),
         risk |-> loc.risk])

\* a predictAmmoniaRisk that remembers the largest TAN of the earlier calls
predictAmmoniaRiskPeak(temp_c, pH, ec) ==
    Let(resultOf(pipeline(temp_c, pH, ec)), LAMBDA r :
        IF log = <<>> THEN r
        ELSE [r EXCEPT !.TAN = MathMax(r.TAN, log[Len(log)].ret.TAN)])

predictAmmoniaRisk(temp_c, pH, ec) == resultOf(pipeline(temp_c, pH, ec))

\* steps = 8 when the argument is omitted
DefaultSteps == 8

\* row.push({ temp: t, pH: p, ...r }) with r = predictAmmoniaRisk(t, p, ec)
heatmapCell(t0, p0, ec) ==
    Let(t0, LAMBDA t : Let(p0, LAMBDA p :
    Let(predictAmmoniaRisk(t, p, ec), LAMBDA r :
        [temp |-> t, pH |-> p, TAN |-> r.TAN, toxicNH3 |-> r.toxicNH3, risk |-> r.risk])))

\* a heatmap whose step divides the range by steps instead of steps - 1
generateHeatmapDataBySteps(tempRange, phRange, ec, steps) ==
    Let(FDiv(FSub(tempRange[2], tempRange[1]), FromInt(steps)), LAMBDA tStep :
    Let(FDiv(FSub(phRange[2], phRange[1]), FromInt(steps)), LAMBDA pStep :
        [i \in 1..steps |-> [j \in 1..steps |->
            heatmapCell(FAdd(tempRange[1], FMul(FromInt(i - 1), tStep)),
                        FAdd(phRange[1], FMul(FromInt(j - 1), pStep)), ec)]]))

\* rows i = 0 .. steps-1, cells j = 0 .. steps-1 (1-based in the sequences)
generateHeatmapData(tempRange, phRange, ec, steps) ==
    Let(FDiv(FSub(tempRange[2], tempRange[1]), FromInt(steps - 1)), LAMBDA tStep :
    Let(FDiv(FSub(phRange[2], phRange[1]), FromInt(steps - 1)), LAMBDA pStep :
        [i \in 1..steps |-> [j \in 1..steps |->
            heatmapCell(FAdd(tempRange[1], FMul(FromInt(i - 1), tStep)),
                        FAdd(phRange[1], FMul(FromInt(j - 1), pStep)), ec)]]))

\* ------------------------------------------------------------------------
\* Calls of the engine
\* ------------------------------------------------------------------------

\* the largest step count given to a heatmap call, and the longest history
\* of predictAmmoniaRisk invocations kept
MaxSteps == 3
MaxLog == 5

F(m, e) == Lit(m, e)
Big == Lit(1, 200)
Huge == Lit(1, 308)

\* arguments of the calls: the valid domain (temperature 5-40, pH 5-10,
\* EC 50-3000), its edges, values outside it, very large finite values and
\* the non-finite values
Temps ==
    {F(5, 0), F(15, 0), F(2685, -2), F(28, 0), F(38, 0), F(40, 0),
     Zero, F(0 - 27315, -2), F(0 - 300, 0), F(100, 0), Big, FNeg(Big),
     NaN, Inf(1), Inf(0 - 1)}
PHs ==
    {F(5, 0), F(65, -1), F(72, -1), F(75, -1), F(95, -1), F(10, 0),
     Zero, F(14, 0), Big, FNeg(Big), Huge, NaN, Inf(1), Inf(0 - 1)}
ECs ==
    {F(50, 0), F(1200, 0), F(2900, 0), F(3000, 0),
     Zero, F(1, 5), Big, FNeg(Big), NaN, Inf(1), Inf(0 - 1)}

\* arguments of classifyRisk: the thresholds, their neighbours, the ends of
\* the range the pipeline produces, and the non-finite values
ToxicValues ==
    {F(0 - 487706, -7), Zero, F(1, -2), F(499999, -7), F(5, -2), F(500001, -7),
     F(2, -1), F(339999, -6), F(34, -2), F(340001, -6), One, F(235325, -4),
     NaN, Inf(1), Inf(0 - 1)}

\* arguments of emersonPhysics: TAN over the range expm1 gives on
\* [-0.05, 3.2], temperature and pH over the valid domain
TanValues == {F(0 - 487706, -7), F(0 - 88, -4), Zero, F(1, -2), One, F(235325, -4)}
EmTemps ==
    {F(5, 0), F(10, 0), F(20, 0), F(2685, -2), F(268501, -4), F(27, 0), F(30, 0), F(40, 0)}
EmPHs == {F(5, 0), F(6, 0), F(7, 0), F(72, -1), F(73, -1), F(8, 0), F(9, 0), F(10, 0)}

\* components of the scaled feature vectors handed to forestPredict
ScaledValues == {FNeg(Big), F(0 - 2, 0), Zero, F(2, 0), Big}

\* ranges of the heatmap calls
TempRanges ==
    {<<F(20, 0), F(30, 0)>>, <<F(5, 0), F(40, 0)>>, <<Zero, One>>, <<F(28, 0), F(28, 0)>>,
     <<FNeg(Huge), Huge>>}
PhRanges == {<<F(6, 0), F(9, 0)>>, <<F(5, 0), F(10, 0)>>, <<Zero, One>>, <<F(75, -1), F(75, -1)>>}
HeatECs == {F(1200, 0), F(2900, 0)}
\* the steps argument: omitted (<<>>) or given (<<n>>)
StepsArgs == {<<>>} \cup {<<n>> : n \in 1..MaxSteps}

\* the state of HomeScreen after its first render: three empty text
\* fields, result null (<<>>; a result r is <<r>>), error ''
HomeInit == [temp |-> <<>>, pH |-> <<>>, ec |-> <<>>, result |-> <<>>, error |-> ""]

\* no call of the engine made yet
NoCall == [op |-> "none", args |-> <<>>, done |-> TRUE, ret |-> <<>>]

Pending(op, args) == [op |-> op, args |-> args, done |-> FALSE, ret |-> <<>>]

PendingCalls ==
    {Pending("predictAmmoniaRisk", <<t, p, e>>) : t \in Temps, p \in PHs, e \in ECs}
    \cup {Pending("generateHeatmapData", <<tr, pr, e, st>>) :
            tr \in TempRanges, pr \in PhRanges, e \in HeatECs, st \in StepsArgs}
    \cup {Pending("classifyRisk", <<x>>) : x \in ToxicValues}
    \cup {Pending("emersonPhysics", <<tan, t, p>>) :
            tan \in TanValues, t \in EmTemps, p \in EmPHs}
    \cup {Pending("forestPredict", <<<<a, b, c, d, e>>>>) :
            a \in ScaledValues, b \in ScaledValues, c \in ScaledValues,
            d \in ScaledValues, e \in ScaledValues}

ModuleInit ==
    /\ SCALER_MEANS = InitMeans
    /\ SCALER_STDS = InitStds
    /\ MODEL = InitModel

Returned(r) == [call EXCEPT !.done = TRUE, !.ret = r]

stepsOf(st) == IF st = <<>> THEN DefaultSteps ELSE st[1]

RunPredict ==
    /\ call.op = "predictAmmoniaRisk" /\ ~call.done
    /\ call' = Returned(predictAmmoniaRisk(call.args[1], call.args[2], call.args[3]))
    /\ UNCHANGED <<SCALER_MEANS, SCALER_STDS, MODEL, log, home>>

RunHeatmap ==
    /\ call.op = "generateHeatmapData" /\ ~call.done
    /\ call' = Returned(generateHeatmapData(call.args[1], call.args[2], call.args[3],
                                            stepsOf(call.args[4])))
    /\ UNCHANGED <<SCALER_MEANS, SCALER_STDS, MODEL, log, home>>

RunClassify ==
    /\ call.op = "classifyRisk" /\ ~call.done
    /\ call' = Returned(classifyRisk(call.args[1]))
    /\ UNCHANGED <<SCALER_MEANS, SCALER_STDS, MODEL, log, home>>

RunEmerson ==
    /\ call.op = "emersonPhysics" /\ ~call.done
    /\ call' = Returned(emersonPhysics(call.args[1], call.args[2], call.args[3]))
    /\ UNCHANGED <<SCALER_MEANS, SCALER_STDS, MODEL, log, home>>

RunForest ==
    /\ call.op = "forestPredict" /\ ~call.done
    /\ call' = Returned(forestPredict(call.args[1]))
    /\ UNCHANGED <<SCALER_MEANS, SCALER_STDS, MODEL, log, home>>

Init == ModuleInit /\ log = <<>> /\ home = HomeInit /\ call \in PendingCalls

Next == RunPredict \/ RunHeatmap \/ RunClassify \/ RunEmerson \/ RunForest

\* one call of one function of the engine, over every argument above
Spec == Init /\ [][Next]_vars

\* ------------------------------------------------------------------------
\* Sequences of calls
\* ------------------------------------------------------------------------

\* arguments of the calls in a sequence: the four corners of the heatmap
\* range below are among them, so that a cell and a direct call coincide
SeqArgs ==
    {<<F(20, 0), F(6, 0), F(2900, 0)>>, <<F(30, 0), F(9, 0), F(2900, 0)>>,
     <<F(28, 0), F(75, -1), F(1200, 0)>>}
SeqTempRange == <<F(20, 0), F(30, 0)>>
SeqPhRange == <<F(6, 0), F(9, 0)>>
SeqEC == F(2900, 0)

\* one invocation of predictAmmoniaRisk as the history keeps it
Invocation(src, args, r) ==
    [src |-> src, args |-> args,
     ret |-> [TAN |-> r.TAN, toxicNH3 |-> r.toxicNH3, risk |-> r.risk]]

\* the invocations of a heatmap call, row by row
RECURSIVE CellsFrom(_, _, _, _)
CellsFrom(grid, ec, n, k) ==
    IF k > n * n THEN <<>>
    ELSE <<Invocation("generateHeatmapData",
                      <<grid[((k - 1) \div n) + 1][((k - 1) % n) + 1].temp,
                        grid[((k - 1) \div n) + 1][((k - 1) % n) + 1].pH, ec>>,
                      grid[((k - 1) \div n) + 1][((k - 1) % n) + 1])>>
         \o CellsFrom(grid, ec, n, k + 1)

SeqInit ==
    /\ ModuleInit
    /\ log = <<>>
    /\ home = HomeInit
    /\ call = NoCall

\* a predictAmmoniaRisk that re-centres the temperature scaler on its input
SeqPredictAdapting ==
    \E a \in SeqArgs :
        /\ Len(log) < MaxLog
        /\ \E r \in {predictAmmoniaRisk(a[1], a[2], a[3])} :
            /\ call' = [op |-> "predictAmmoniaRisk", args |-> a, done |-> TRUE, ret |-> r]
            /\ log' = Append(log, Invocation("predictAmmoniaRisk", a, r))
        /\ SCALER_MEANS' = [SCALER_MEANS EXCEPT ![1] = a[1]]
        /\ UNCHANGED <<SCALER_STDS, MODEL, home>>

SeqPredict ==
    \E a \in SeqArgs :
        /\ Len(log) < MaxLog
        /\ \E r \in {predictAmmoniaRisk(a[1], a[2], a[3])} :
            /\ call' = [op |-> "predictAmmoniaRisk", args |-> a, done |-> TRUE, ret |-> r]
            /\ log' = Append(log, Invocation("predictAmmoniaRisk", a, r))
        /\ UNCHANGED <<SCALER_MEANS, SCALER_STDS, MODEL, home>>

SeqHeatmap ==
    \E n \in 1..MaxSteps :
        /\ Len(log) + n * n <= MaxLog
        /\ \E grid \in {generateHeatmapData(SeqTempRange, SeqPhRange, SeqEC, n)} :
            /\ call' = [op |-> "generateHeatmapData",
                        args |-> <<SeqTempRange, SeqPhRange, SeqEC, <<n>>>>,
                        done |-> TRUE, ret |-> grid]
            /\ log' = log \o CellsFrom(grid, SeqEC, n, 1)
        /\ UNCHANGED <<SCALER_MEANS, SCALER_STDS, MODEL, home>>

SeqNext == SeqPredict \/ SeqHeatmap

\* any sequence of calls of the two exported functions
SpecSeq == SeqInit /\ [][SeqNext]_vars

\* ------------------------------------------------------------------------
\* HomeScreen
\* ------------------------------------------------------------------------

\* a text is the sequence of its characters: <<"7", ".", "5">> is '7.5'
DigitChars == <<"0", "1", "2", "3", "4", "5", "6", "7", "8", "9">>
IsDigit(c) == \E d \in 1..10 : DigitChars[d] = c
DigitVal(c) == (CHOOSE d \in 1..10 : DigitChars[d] = c) - 1

\* the number of digits of text s from position i on
RECURSIVE DigitRun(_, _)
DigitRun(s, i) ==
    IF i <= Len(s) /\ IsDigit(s[i]) THEN 1 + DigitRun(s, i + 1) ELSE 0

\* the integer written by the n digits of s from position i on
RECURSIVE DigitsValue(_, _, _)
DigitsValue(s, i, n) ==
    IF n = 0 THEN 0 ELSE DigitsValue(s, i, n - 1) * 10 + DigitVal(s[i + n - 1])

RECURSIVE SkipSpace(_, _)
SkipSpace(s, i) == IF i <= Len(s) /\ s[i] = " " THEN SkipSpace(s, i + 1) ELSE i

CharAt(s, i) == IF i >= 1 /\ i <= Len(s) THEN s[i] ELSE ""
StartsWith(s, i, w) == i + Len(w) - 1 <= Len(s) /\ SubSeq(s, i, i + Len(w) - 1) = w

\* the exponent part at position i: e or E, an optional sign, digits; 0 when
\* there is none
ExponentAt(s, i) ==
    IF CharAt(s, i) \in {"e", "E"}
    THEN Let(IF CharAt(s, i + 1) \in {"+", "-"} THEN i + 2 ELSE i + 1, LAMBDA j :
         Let(DigitRun(s, j), LAMBDA n :
             IF n = 0 THEN 0
             ELSE IF CharAt(s, i + 1) = "-" THEN 0 - DigitsValue(s, j, n)
             ELSE DigitsValue(s, j, n)))
    ELSE 0

\* parseFloat: leading blanks are skipped, the longest prefix that is a
\* decimal literal is converted and what follows it is ignored; NaN when
\* there is no such prefix
parseFloat(text) ==
    Let(SkipSpace(text, 1), LAMBDA i0 :
    Let(IF CharAt(text, i0) = "-" THEN 0 - 1 ELSE 1, LAMBDA sgn :
    Let(IF CharAt(text, i0) \in {"+", "-"} THEN i0 + 1 ELSE i0, LAMBDA i1 :
        IF StartsWith(text, i1, <<"I", "n", "f", "i", "n", "i", "t", "y">>) THEN Inf(sgn)
        ELSE
        Let(DigitRun(text, i1), LAMBDA n1 :
        Let(IF CharAt(text, i1 + n1) = "." THEN DigitRun(text, i1 + n1 + 1) ELSE 0, LAMBDA n2 :
            IF n1 + n2 = 0 THEN NaN
            ELSE Norm(sgn,
                      DigitsValue(text, i1, n1) * 10 ^ n2 + DigitsValue(text, i1 + n1 + 1, n2),
                      ExponentAt(text, IF CharAt(text, i1 + n1) = "." THEN i1 + n1 + 1 + n2
                                       ELSE i1 + n1) - n2))))))

\* the colour tokens C.safe, C.warning, C.critical
C_safe == "#2ecc71"
C_warning == "#f1c40f"
C_critical == "#e74c3c"

\* maxValue = 0.5 when the prop is omitted
DefaultMaxValue == Lit(5, -1)

\* barColor of GaugeBar({ value, maxValue })
GaugeBar(value, maxValue) ==
    Let(MathMin(FDiv(value, maxValue), One), LAMBDA pct :
        IF FGt(pct, Lit(68, -2)) THEN C_critical
        ELSE IF FGt(pct, Lit(1, -1)) THEN C_warning
        ELSE C_safe)

\* riskColor of a result
riskColor(r) ==
    IF r.risk = "SAFE" THEN C_safe
    ELSE IF r.risk = "WARNING" THEN C_warning
    ELSE C_critical

\* the messages of validate (the dashes and unit signs written in ASCII)
ErrNumbers == "Please enter valid numbers in all fields."
ErrTemp == "Temperature should be between 5-40 C."
ErrPH == "pH should be between 5.0-10.0."
ErrEC == "EC should be between 50-3000 uS/cm."

\* validate(): the error it sets, and what it returns: null (<<>>) or the
\* three numbers { t, p, e } (<<t, p, e>>)
validateOf(tpe) ==
    Let(tpe, LAMBDA v :
        IF IsNaN(v[1]) \/ IsNaN(v[2]) \/ IsNaN(v[3]) THEN [error |-> ErrNumbers, v |-> <<>>]
        ELSE IF FLt(v[1], FromInt(5)) \/ FGt(v[1], FromInt(40)) THEN [error |-> ErrTemp, v |-> <<>>]
        ELSE IF FLt(v[2], FromInt(5)) \/ FGt(v[2], FromInt(10)) THEN [error |-> ErrPH, v |-> <<>>]
        ELSE IF FLt(v[3], FromInt(50)) \/ FGt(v[3], FromInt(3000)) THEN [error |-> ErrEC, v |-> <<>>]
        ELSE [error |-> "", v |-> v])

\* a validate whose temperature check has lost its upper bound
validateNoUpper(h) ==
    Let(<<parseFloat(h.temp), parseFloat(h.pH), parseFloat(h.ec)>>, LAMBDA v :
        IF IsNaN(v[1]) \/ IsNaN(v[2]) \/ IsNaN(v[3]) THEN [error |-> ErrNumbers, v |-> <<>>]
        ELSE IF FLt(v[1], FromInt(5)) THEN [error |-> ErrTemp, v |-> <<>>]
        ELSE IF FLt(v[2], FromInt(5)) \/ FGt(v[2], FromInt(10)) THEN [error |-> ErrPH, v |-> <<>>]
        ELSE IF FLt(v[3], FromInt(50)) \/ FGt(v[3], FromInt(3000)) THEN [error |-> ErrEC, v |-> <<>>]
        ELSE [error |-> "", v |-> v])

validate(h) == validateOf(<<parseFloat(h.temp), parseFloat(h.pH), parseFloat(h.ec)>>)

\* the texts typed into the three fields
TempTexts == {<<"2", "8">>, <<"3", "0", "C">>, <<"4", ".", "9">>, <<"4", "1">>}
PHTexts ==
    {<<"7", ".", "5">>, <<"8", ".", "3", "7", "1", "3", "9">>,
     <<"7", ".", "5", "9", "4", "1", "6">>, <<"1", "e", "1">>, <<"1", "0", ".", "5">>}
ECTexts ==
    {<<"1", "2", "0", "0">>, <<"2", "0", "0", "9">>, <<"2", "0", "0", "8">>,
     <<"4", "9">>, <<"I", "n", "f", "i", "n", "i", "t", "y">>}

\* onChangeText of the three input rows
setTemp ==
    /\ \E text \in TempTexts : home' = [home EXCEPT !.temp = text]
    /\ UNCHANGED <<SCALER_MEANS, SCALER_STDS, MODEL, call, log>>

setpH ==
    /\ \E text \in PHTexts : home' = [home EXCEPT !.pH = text]
    /\ UNCHANGED <<SCALER_MEANS, SCALER_STDS, MODEL, call, log>>

setEc ==
    /\ \E text \in ECTexts : home' = [home EXCEPT !.ec = text]
    /\ UNCHANGED <<SCALER_MEANS, SCALER_STDS, MODEL, call, log>>

\* an ANALYZE press that forgets the earlier result when validation fails
handlePredictClearing ==
    /\ \E val \in {validate(home)} :
        IF val.v = <<>>
        THEN /\ home' = [home EXCEPT !.error = val.error, !.result = <<>>]
             /\ UNCHANGED call
        ELSE \E r \in {predictAmmoniaRisk(val.v[1], val.v[2], val.v[3])} :
             /\ home' = [home EXCEPT !.error = "", !.result = <<r>>]
             /\ call' = [op |-> "predictAmmoniaRisk", args |-> val.v, done |-> TRUE, ret |-> r]
    /\ UNCHANGED <<SCALER_MEANS, SCALER_STDS, MODEL, log>>

\* onPress of the ANALYZE button; call keeps the last call of the engine
handlePredict ==
    /\ \E val \in {validate(home)} :
        IF val.v = <<>>
        THEN /\ home' = [home EXCEPT !.error = val.error]
             /\ UNCHANGED call
        ELSE \E r \in {predictAmmoniaRisk(val.v[1], val.v[2], val.v[3])} :
             /\ home' = [home EXCEPT !.error = "", !.result = <<r>>]
             /\ call' = [op |-> "predictAmmoniaRisk", args |-> val.v, done |-> TRUE, ret |-> r]
    /\ UNCHANGED <<SCALER_MEANS, SCALER_STDS, MODEL, log>>

HomeNext == setTemp \/ setpH \/ setEc \/ handlePredict

\* HomeScreen under any sequence of field edits and ANALYZE presses
SpecUI == SeqInit /\ [][HomeNext]_vars

\* ------------------------------------------------------------------------
\* Properties
\* ------------------------------------------------------------------------

Done(op) == call.done /\ call.op = op
Tiers == {"SAFE", "WARNING", "CRITICAL"}
T005 == Lit(5, -2)
T034 == Lit(34, -2)

\* C1: classifyRisk returns exactly one of the three tiers for every value:
\* SAFE when toxicNH3 < 0.05, WARNING when 0.05 <= toxicNH3 < 0.34, CRITICAL
\* when toxicNH3 >= 0.34; exactly 0.05 is WARNING and exactly 0.34 CRITICAL.
C1_ClassifyTiers ==
    Done("classifyRisk") =>
        /\ call.ret \in Tiers
        /\ FLt(call.args[1], T005) => call.ret = "SAFE"
        /\ (FGe(call.args[1], T005) /\ FLt(call.args[1], T034)) => call.ret = "WARNING"
        /\ FGe(call.args[1], T034) => call.ret = "CRITICAL"
        /\ call.args[1] = T005 => call.ret = "WARNING"
        /\ call.args[1] = T034 => call.ret = "CRITICAL"

C1_Witness ==
    Done("classifyRisk") /\ call.args[1] = T034 /\ call.ret = "CRITICAL"

FiniteArgs(args) == \A i \in DOMAIN args : IsFinite(args[i])
NonNeg(x) == FGe(x, Zero)
CellsOf(grid) == {grid[i][j] : i \in DOMAIN grid, j \in DOMAIN grid}

\* C2: TAN and toxicNH3 in the result of predictAmmoniaRisk, and in every
\* cell of generateHeatmapData, are never negative for finite numeric inputs.
C2_NonNegative ==
    /\ (Done("predictAmmoniaRisk") /\ FiniteArgs(call.args)) =>
           (NonNeg(call.ret.TAN) /\ NonNeg(call.ret.toxicNH3))
    /\ (Done("generateHeatmapData") /\ FiniteArgs(call.args[1])
            /\ FiniteArgs(call.args[2]) /\ IsFinite(call.args[3])) =>
           \A c \in CellsOf(call.ret) : NonNeg(c.TAN) /\ NonNeg(c.toxicNH3)

\* the three "if and only if"s between a risk label and a reported value
TierIffs(risk, reported) ==
    /\ risk = "SAFE" <=> FLt(reported, T005)
    /\ risk = "WARNING" <=> (FGe(reported, T005) /\ FLt(reported, T034))
    /\ risk = "CRITICAL" <=> FGe(reported, T034)

\* C3 (as amended): the risk of a result is classifyRisk of the reported
\* toxicNH3, although the label is computed before the floor at zero; a
\* result is SAFE iff toxicNH3 < 0.05, WARNING iff 0.05 <= toxicNH3 < 0.34 and
\* CRITICAL iff toxicNH3 >= 0.34 whenever the reported toxicNH3 is a number,
\* and CRITICAL when the reported toxicNH3 is NaN.
C3_RiskOfReported ==
    Done("predictAmmoniaRisk") =>
        /\ call.ret.risk = classifyRisk(call.ret.toxicNH3)
        /\ ~IsNaN(call.ret.toxicNH3) => TierIffs(call.ret.risk, call.ret.toxicNH3)
        /\ IsNaN(call.ret.toxicNH3) => call.ret.risk = "CRITICAL"

\* C3 (as stated): flooring never changes the tier, and the three
\* equivalences hold for every result.
C3_Original ==
    Done("predictAmmoniaRisk") =>
        /\ call.ret.risk = classifyRisk(call.ret.toxicNH3)
        /\ TierIffs(call.ret.risk, call.ret.toxicNH3)

\* a call whose unfloored toxic_NH3 is negative: the floor has acted
C3_Witness ==
    /\ Done("predictAmmoniaRisk")
    /\ call.args = <<F(28, 0), F(75, -1), F(1200, 0)>>
    /\ FLt(pipeline(call.args[1], call.args[2], call.args[3]).toxic_NH3, Zero)
    /\ call.ret.toxicNH3 = Zero
    /\ call.ret.risk = "SAFE"

\* C4: forestPredict returns a value in [-0.05, 3.2] for every scaled
\* feature vector, however extreme.
C4_PredLogClamped ==
    Done("forestPredict") =>
        (FGe(call.ret, Lit(0 - 5, -2)) /\ FLe(call.ret, Lit(32, -1)))

\* C5: generateHeatmapData with steps = 1 returns one cell located at the
\* lower bounds of the two ranges.
C5_SingleStep ==
    (Done("generateHeatmapData") /\ stepsOf(call.args[4]) = 1) =>
        /\ Len(call.ret) = 1
        /\ Len(call.ret[1]) = 1
        /\ call.ret[1][1].temp = call.args[1][1]
        /\ call.ret[1][1].pH = call.args[2][1]

C5_Witness ==
    /\ Done("generateHeatmapData")
    /\ stepsOf(call.args[4]) = 1
    /\ IsNaN(call.ret[1][1].temp)

FAbs(x) == IF x.k = "fin" /\ x.m < 0 THEN FNeg(x) ELSE x

\* the coordinate the claim names: a + i * (b - a) / (steps - 1)
ExactCoord(range, i, steps) ==
    FAdd(range[1], FDiv(FMul(FromInt(i), FSub(range[2], range[1])), FromInt(steps - 1)))

\* equal up to rounding: within a few units in the last place of the
\* magnitude of the range
Near(x, y, range) ==
    FLe(FAbs(FSub(x, y)), FMul(Lit(5, -6), FAdd(FAbs(range[1]), FAbs(range[2]))))

\* a call of generateHeatmapData with steps >= 2 over finite ranges
GridCall ==
    /\ Done("generateHeatmapData")
    /\ stepsOf(call.args[4]) >= 2
    /\ FiniteArgs(call.args[1])
    /\ FiniteArgs(call.args[2])

\* the widths b - a and d - c of the ranges of the call are finite numbers
FiniteWidths ==
    /\ IsFinite(FSub(call.args[1][2], call.args[1][1]))
    /\ IsFinite(FSub(call.args[2][2], call.args[2][1]))

\* steps rows of steps cells, each the result of predictAmmoniaRisk at the
\* cell's own coordinates and the conductivity of the call
GridCells ==
    Let(stepsOf(call.args[4]), LAMBDA n :
        /\ Len(call.ret) = n
        /\ \A i \in 1..n : Len(call.ret[i]) = n
        /\ \A i \in 1..n : \A j \in 1..n :
             heatmapCell(call.ret[i][j].temp, call.ret[i][j].pH, call.args[3])
                 = call.ret[i][j])

\* temperature by row and pH by column, cell [0][0] at (a, c) and the last
\* cell at (b, d); SameCoord(x, y, range) says how a coordinate x meets the
\* value y named for it
GridCoords(SameCoord(_, _, _)) ==
    Let(stepsOf(call.args[4]), LAMBDA n :
        /\ \A i \in 1..n : \A j \in 1..n :
             /\ SameCoord(call.ret[i][j].temp, ExactCoord(call.args[1], i - 1, n), call.args[1])
             /\ SameCoord(call.ret[i][j].pH, ExactCoord(call.args[2], j - 1, n), call.args[2])
        /\ call.ret[1][1].temp = call.args[1][1]
        /\ call.ret[1][1].pH = call.args[2][1]
        /\ SameCoord(call.ret[n][n].temp, call.args[1][2], call.args[1])
        /\ SameCoord(call.ret[n][n].pH, call.args[2][2], call.args[2]))

\* C6 (as amended): for steps >= 2 and finite ranges generateHeatmapData
\* returns steps rows of steps cells, and cell [i][j] carries the result of
\* predictAmmoniaRisk at its own temp and pH; when the widths b - a and d - c
\* are finite, the temp of row i and the pH of column j equal
\* a + i(b-a)/(steps-1) and c + j(d-c)/(steps-1) up to floating-point rounding,
\* cell [0][0] is exactly at (a, c) and the last cell is at (b, d) up to
\* rounding.
C6_GridRounded ==
    GridCall =>
        /\ GridCells
        /\ FiniteWidths => GridCoords(LAMBDA x, y, range : Near(x, y, range))

\* C6 (as stated): the coordinates are exactly a + i(b-a)/(steps-1) and
\* c + j(d-c)/(steps-1), and the last cell is exactly at (b, d).
C6_Original ==
    GridCall =>
        /\ GridCells
        /\ GridCoords(LAMBDA x, y, range : x = y)

\* a grid whose last temperature is not the upper bound b, yet near it
C6_Witness ==
    /\ GridCall
    /\ FiniteWidths
    /\ Len(call.ret) = DefaultSteps
    /\ call.ret[DefaultSteps][DefaultSteps].temp # call.args[1][2]
    /\ Near(call.ret[DefaultSteps][DefaultSteps].temp, call.args[1][2], call.args[1])
    /\ call.ret[2][1].temp # call.ret[1][1].temp

\* the larger values of a set of inputs
Above(S, x) == {y \in S : FGt(y, x)}

\* two inputs further apart than the resolution of the arithmetic
Apart(x, y) == FGe(FSub(y, x), Lit(1, -2))

\* how a result at a larger pH or temperature compares, by the sign of TAN
Ordered(tan, lower, upper) ==
    /\ FGt(tan, Zero) => FGt(upper, lower)
    /\ tan = Zero => upper = lower
    /\ FLt(tan, Zero) => FLt(upper, lower)

\* C7 (as amended): over temperatures 5 to 40 and pH 5 to 10, for inputs at
\* least 0.01 apart, emersonPhysics strictly increases with pH and with
\* temperature when the TAN is positive; it is constant for a TAN of zero and
\* strictly decreases for the negative TAN the pipeline passes in (expm1 of
\* a negative pred_log).
C7_MonotoneBySign ==
    Done("emersonPhysics") =>
        /\ \A p \in {q \in Above(EmPHs, call.args[3]) : Apart(call.args[3], q)} :
             Ordered(call.args[1], call.ret, emersonPhysics(call.args[1], call.args[2], p))
        /\ \A t \in {u \in Above(EmTemps, call.args[2]) : Apart(call.args[2], u)} :
             Ordered(call.args[1], call.ret, emersonPhysics(call.args[1], t, call.args[3]))

\* C7 (as stated): for every TAN the pipeline can pass in, emersonPhysics
\* strictly increases with pH and with temperature.
C7_Original ==
    Done("emersonPhysics") =>
        /\ \A p \in Above(EmPHs, call.args[3]) :
             FGt(emersonPhysics(call.args[1], call.args[2], p), call.ret)
        /\ \A t \in Above(EmTemps, call.args[2]) :
             FGt(emersonPhysics(call.args[1], t, call.args[3]), call.ret)

\* a positive TAN at an input with larger pH and larger temperatures to compare
C7_Witness ==
    /\ Done("emersonPhysics")
    /\ FGt(call.args[1], Zero)
    /\ Above(EmPHs, call.args[3]) # {}
    /\ Above(EmTemps, call.args[2]) # {}
    /\ FGt(call.ret, Zero)

\* the worked example: emersonPhysics(1.0, 26.85, 7.2)
ExampleCall ==
    Done("emersonPhysics") /\ call.args = <<One, F(2685, -2), F(72, -1)>>
Within(x, lo, hi) == FGe(x, lo) /\ FLe(x, hi)

\* C8 (as amended): emersonPhysics(1.0, 26.85, 7.2) has temp_k = 300.0,
\* pKa = 0.09018 + 2729.92 / 300 = 9.18991 and returns about 0.010131.
C8_Example ==
    ExampleCall =>
        /\ FAdd(call.args[2], Lit(27315, -2)) = FromInt(300)
        /\ Within(pKaOf(call.args[2]), Lit(918990, -5), Lit(918992, -5))
        /\ Within(call.ret, Lit(10130, -6), Lit(10133, -6))

\* C8 (as stated): the same call has pKa about 9.18327 and returns about 0.3943.
C8_Original ==
    ExampleCall =>
        /\ FAdd(call.args[2], Lit(27315, -2)) = FromInt(300)
        /\ Within(pKaOf(call.args[2]), Lit(918277, -5), Lit(918377, -5))
        /\ Within(call.ret, Lit(39425, -5), Lit(39435, -5))

C8_Witness == ExampleCall /\ FLt(call.ret, Lit(2, -2))

\* C9: predictAmmoniaRisk is deterministic and stateless: two invocations
\* with the same arguments, made directly or by generateHeatmapData, return
\* the same result whatever was called before or between them.
C9_SameArgsSameResult ==
    \A i \in DOMAIN log : \A j \in DOMAIN log :
        log[i].args = log[j].args => log[i].ret = log[j].ret

\* a direct call, a different call after it, and then the first one's
\* arguments again in a heatmap cell
C9_Witness ==
    \E i \in DOMAIN log : \E j \in DOMAIN log : \E k \in DOMAIN log :
        /\ i < k /\ k < j
        /\ log[i].src = "predictAmmoniaRisk"
        /\ log[j].src = "generateHeatmapData"
        /\ log[i].args = log[j].args
        /\ log[k].args # log[i].args
        /\ FGt(log[i].ret.TAN, Zero)

\* C10: predictAmmoniaRisk validates nothing: for every finite numeric
\* input, in or out of any domain range, it returns an object with the
\* fields TAN, toxicNH3 and risk, the risk one of the three tiers.
C10_AlwaysResult ==
    (Done("predictAmmoniaRisk") /\ FiniteArgs(call.args)) =>
        /\ DOMAIN call.ret = {"TAN", "toxicNH3", "risk"}
        /\ call.ret.risk \in Tiers
        /\ call.ret.TAN.k \in {"fin", "inf", "nan"}
        /\ call.ret.toxicNH3.k \in {"fin", "inf", "nan"}

\* a finite input far outside every domain range, and its result
C10_Witness ==
    /\ Done("predictAmmoniaRisk")
    /\ call.args = <<F(0 - 27315, -2), F(14, 0), Zero>>
    /\ call.ret.risk \in Tiers

\* C11: when an argument of predictAmmoniaRisk is NaN, +Infinity or
\* -Infinity the call returns, and its TAN and toxicNH3 are non-finite.
C11_NonFinitePropagates ==
    (Done("predictAmmoniaRisk") /\ ~FiniteArgs(call.args)) =>
        (~IsFinite(call.ret.TAN) /\ ~IsFinite(call.ret.toxicNH3))

\* scenario A of the end-to-end examples
ScenarioA ==
    Done("predictAmmoniaRisk") /\ call.args = <<F(28, 0), F(75, -1), F(1200, 0)>>

\* C13: predictAmmoniaRisk(28, 7.5, 1200) has a log-scale model output at
\* or below zero, so its reported TAN is 0, its reported toxicNH3 is 0 and
\* its risk is SAFE.
C13_ScenarioA ==
    ScenarioA =>
        /\ FLe(pipeline(call.args[1], call.args[2], call.args[3]).pred_log, Zero)
        /\ call.ret.TAN = Zero
        /\ call.ret.toxicNH3 = Zero
        /\ call.ret.risk = "SAFE"

\* the scenario's model output is negative and above the clamp at -0.05:
\* the floor at zero, not the clamp, makes the TAN 0
C13_Witness ==
    /\ ScenarioA
    /\ Within(pipeline(call.args[1], call.args[2], call.args[3]).pred_log,
              Lit(0 - 1, -2), Lit(0 - 8, -3))
    /\ call.ret.TAN = Zero

\* C17: for finite inputs 0 <= toxicNH3 <= TAN in the result, and a
\* reported TAN of 0 comes with a reported toxicNH3 of 0 and the risk SAFE.
C17_ToxicWithinTAN ==
    (Done("predictAmmoniaRisk") /\ FiniteArgs(call.args)) =>
        /\ FLe(Zero, call.ret.toxicNH3)
        /\ FLe(call.ret.toxicNH3, call.ret.TAN)
        /\ call.ret.TAN = Zero => (call.ret.toxicNH3 = Zero /\ call.ret.risk = "SAFE")

\* the parameters are those the module was loaded with
ParamsIntact ==
    /\ SCALER_MEANS = InitMeans
    /\ SCALER_STDS = InitStds
    /\ MODEL = InitModel

\* the caller's range arrays after a heatmap call are those passed in
RangesIntact ==
    call.op = "generateHeatmapData" =>
        (call.args[1] = SeqTempRange /\ call.args[2] = SeqPhRange)

\* C12: after any sequence of predictAmmoniaRisk and generateHeatmapData
\* calls SCALER_MEANS, SCALER_STDS and MODEL are what they were before the
\* first call, and the tempRange and phRange arrays of a heatmap call are
\* unchanged.
C12_NothingMutated == ParamsIntact /\ RangesIntact

\* a heatmap call made after a direct call
C12_Witness ==
    /\ call.op = "generateHeatmapData"
    /\ Len(call.ret) = 2
    /\ Len(log) = 5
    /\ log[1].src = "predictAmmoniaRisk"
    /\ MODEL.intercept = Lit(0 - 12, -2)

\* numbers t, p, e inside the valid domain, none NaN
InDomain(v) ==
    /\ Within(v[1], FromInt(5), FromInt(40))
    /\ Within(v[2], FromInt(5), FromInt(10))
    /\ Within(v[3], FromInt(50), FromInt(3000))

\* C14: in every state of HomeScreen, after any field edits and ANALYZE
\* presses, predictAmmoniaRisk has been called only with 5 <= t <= 40,
\* 5 <= p <= 10 and 50 <= e <= 3000, and a displayed result is the one
\* computed from such inputs.
C14_CallsInDomain ==
    /\ call.op = "predictAmmoniaRisk" => InDomain(call.args)
    /\ call.op \in {"none", "predictAmmoniaRisk"}
    /\ home.result # <<>> =>
           /\ call.op = "predictAmmoniaRisk"
           /\ home.result[1] = call.ret
           /\ call.ret = predictAmmoniaRisk(call.args[1], call.args[2], call.args[3])

\* a result shown for the text '30C', which parseFloat reads as 30, while the
\* fields have since been edited to a temperature out of range
C14_Witness ==
    /\ home.result # <<>>
    /\ call.args[1] = F(30, 0)
    /\ home.temp = <<"4", "1">>
    /\ home.error = ""

\* the fields are the same in the two states of a step: no field was edited
FieldsKept == home'.temp = home.temp /\ home'.pH = home.pH /\ home'.ec = home.ec

\* the numbers the current field texts stand for
FieldNumbers == <<parseFloat(home.temp), parseFloat(home.pH), parseFloat(home.ec)>>

\* C15: an ANALYZE press whose validation fails sets a non-empty error,
\* calls nothing and leaves result unchanged; one whose validation succeeds
\* sets error to '' and replaces result with the prediction for the current
\* field values.
C15_PressFrame ==
    [][FieldsKept =>
          IF InDomain(FieldNumbers)
          THEN /\ home'.error = ""
               /\ home'.result =
                      <<predictAmmoniaRisk(FieldNumbers[1], FieldNumbers[2], FieldNumbers[3])>>
               /\ call'.args = FieldNumbers
          ELSE /\ home'.error # ""
               /\ home'.result = home.result
               /\ call' = call]_vars

\* an error shown together with the result of an earlier press
C15_Witness ==
    /\ home.error = ErrPH
    /\ home.result # <<>>
    /\ ~InDomain(FieldNumbers)

\* C16: the gauge bar's colour agrees with the risk tier of the displayed
\* result: safe iff SAFE, warning iff WARNING, critical iff CRITICAL, also at
\* toxicNH3 = 0.05 and 0.34.
C16_GaugeAgrees ==
    home.result # <<>> =>
        GaugeBar(home.result[1].toxicNH3, DefaultMaxValue) = riskColor(home.result[1])

====
